---- MODULE Spec2Model ----
(***************************************************************************)
(* Model of publish/domain.py: the Context / Instance data model, host     *)
(* resolution, the selector runner select() and the stage runner process().*)
(*                                                                         *)
(* The caller owns at most one Context at a time and threads it through    *)
(* select() and process() calls.  Each call is executed loop iteration by  *)
(* loop iteration; what a plugin's process() does (return, raise, append   *)
(* an Instance, change a config entry) is chosen at every invocation.      *)
(* A plugin may raise an Exception or one of the built-in exceptions that   *)
(* are no Exception (KeyboardInterrupt, SystemExit, GeneratorExit), and it  *)
(* may raise an exception object it has raised before.  Constructing a      *)
(* plugin class only binds the Context, and log output is not modelled.     *)
(***************************************************************************)
EXTENDS Integers, Sequences, FiniteSets, TLC

\* ---------------------------------------------------------------- bounds
MaxPlugins == 2     \* longest list discover() returns
MaxInst == 2        \* most Instances a Context holds
MaxCalls == 2       \* most select()/process() calls the caller makes
MaxInitial == 2     \* most Instances the caller's Context holds at the start
MaxKept == 1        \* most exception objects plugins keep to raise them again
MaxGrown == 3       \* most Instances a Context grows to in AppendingSpec

\* ------------------------------------------------------------- vocabulary
None == "None"                       \* Python's None
NoException == "NoException"         \* nothing propagates
ValueError == "ValueError"           \* raised by current_host()
PluginError == "PluginError"         \* an Exception subclass of a plugin
KeyboardInterrupt == "KeyboardInterrupt"
SystemExit == "SystemExit"
GeneratorExit == "GeneratorExit"
AssertionError == "AssertionError"   \* raised by a failed assert

Families == {"model", "rig"}
FamilySets == {{"model"}, {"rig"}}
HostSets == {{"maya"}, {"houdini"}}
Stages == {"validators", "extractors"}

\* sys.executable as path components, the last one spelled out in characters
Executables ==
    { <<"bin", <<"m", "a", "y", "a", "p", "y">> >>,
      <<"maya", <<"p", "y", "t", "h", "o", "n">> >> }

VARIABLES
    executable,   \* sys.executable of the running interpreter
    ctxId,        \* identity of the caller's Context object, 0 = none yet
    context,      \* the Instances of the caller's Context, in order
    nextCtx,      \* identity the next Context() gets
    nextInst,     \* identity the next Instance gets
    ncalls,       \* number of calls made so far
    pc,           \* position of the running call
    op,           \* "select" or "process": the call that runs or ran last
    plugins,      \* local: the list discover() returned
    i,            \* local: position of process()'s Instance loop
    k,            \* local: position of the plugin loop
    family,       \* local: family of the Instance being iterated
    argId,        \* identity of the Context argument, 0 = None
    ret,          \* identity of the Context returned, 0 = nothing returned
    exc,          \* the exception that propagated to the caller
    excs,         \* the exception objects process() has recorded, by identity
    ctx0,         \* history: the Instances of the Context argument at the call
    constructed,  \* history: PluginClass(context) constructions of this call
    invoked       \* history: plugin.process() invocations of this call

vars == <<executable, ctxId, context, nextCtx, nextInst, ncalls, pc, op,
          plugins, i, k, family, argId, ret, exc, excs, ctx0, constructed,
          invoked>>

\* ------------------------------------------------------------ data model
EmptyConfig == [key \in {} |-> None]

\* variant: a missing entry is read as the family "model"
Get_default(config, key) == IF key \in DOMAIN config THEN config[key] ELSE "model"

\* dict.get(key): the entry, None when the key is absent
Get(config, key) == IF key \in DOMAIN config THEN config[key] ELSE None

\* an Instance as a selector plugin creates it
Instance(id, fam) ==
    [id |-> id,
     config |-> IF fam = None THEN EmptyConfig ELSE [key \in {"family"} |-> fam],
     errors |-> <<>>]

\* variant: the list is created anew for every Instance iterated
errors_reset(self) == IF Len(self) = 0 THEN <<>> ELSE self[Len(self)].errors

\* Context.errors: extend a list by every Instance's errors, in iteration order
RECURSIVE ErrorsUpTo(_, _)
ErrorsUpTo(self, n) ==
    IF n = 0 THEN <<>> ELSE ErrorsUpTo(self, n - 1) \o self[n].errors

errors(self) == ErrorsUpTo(self, Len(self))

\* Context.has_errors: True at the first error iterated, False otherwise
has_errors(self) == Len(errors(self)) > 0

\* ------------------------------------------------------ exception classes
\* the base class of each exception class a call can meet
Bases ==
    [cls \in {PluginError, ValueError, AssertionError, "Exception",
              KeyboardInterrupt, SystemExit, GeneratorExit} |->
        IF cls \in {PluginError, ValueError, AssertionError} THEN "Exception"
        ELSE "BaseException"]

\* isinstance(an object of class cls, target): target is cls or a base of it
RECURSIVE isinstance(_, _)
isinstance(cls, target) ==
    IF cls = target THEN TRUE
    ELSE IF cls \in DOMAIN Bases THEN isinstance(Bases[cls], target)
    ELSE FALSE

\* ------------------------------------------------------- host resolution
basename(path) == path[Len(path)]

\* Python's `sub in s` on strings
Contains(sub, s) ==
    \E j \in 0..(Len(s) - Len(sub)) : SubSeq(s, j + 1, j + Len(sub)) = sub

\* current_host(): 'maya' or a raised ValueError
current_host ==
    IF Contains(<<"m", "a", "y", "a">>, basename(executable))
    THEN [raises |-> FALSE, value |-> "maya"]
    ELSE [raises |-> TRUE, value |-> ValueError]

\* ------------------------------------------------------ plugin discovery
SelectorClasses == [hosts : HostSets]
StageClasses == [hosts : HostSets, families : FamilySets]

SeqUpTo(S, n) == UNION {[1..m -> S] : m \in 0..n}

\* publish.plugin.discover(type): an ordered list of plugin classes
discover(type) ==
    IF type = "selectors" THEN SeqUpTo(SelectorClasses, MaxPlugins)
    ELSE SeqUpTo(StageClasses, MaxPlugins)

\* ------------------------------------------------------ plugin behaviour
NoAppend == "NoAppend"

\* families of the Instance one process() invocation may append (None: an
\* Instance without a family entry); nothing is appended to a Context that
\* holds the most Instances it may
AppendChoices(ctx, most) ==
    IF Len(ctx) < most THEN {NoAppend, None} \cup Families ELSE {NoAppend}

\* the classes of what a plugin's process() raises
Raisable == {PluginError, KeyboardInterrupt, SystemExit, GeneratorExit}

\* the exception objects a plugin can raise again: the MaxKept latest ones
\* process() has recorded
Kept(heap) == {id \in 1..Len(heap) : id > Len(heap) - MaxKept}

\* what a raising process() raises: the class, and the object's identity (an
\* object made for this raise, or a kept one; followed for Exceptions only)
Raises(heap) ==
    [error : {PluginError}, object : {Len(heap) + 1} \cup Kept(heap)]
    \cup [error : Raisable \ {PluginError}, object : {0}]

\* process() returns
Returns == [error |-> NoException, object |-> 0]

\* what one invocation of a selector plugin's process() does
SelectorEffects(ctx) ==
    {[append |-> a, mutate |-> FALSE, error |-> r.error, object |-> 0] :
        a \in AppendChoices(ctx, MaxInst), r \in Raises(<<>>) \cup {Returns}}

\* what one invocation of a stage plugin's process() does
StageEffects(ctx, heap) ==
    {[append |-> NoAppend, mutate |-> m, error |-> r.error, object |-> r.object] :
        m \in BOOLEAN, r \in Raises(heap) \cup {Returns}}
    \cup {[append |-> a, mutate |-> FALSE, error |-> NoException, object |-> 0] :
            a \in AppendChoices(ctx, MaxInst) \ {NoAppend}}

\* the same, for a Context that may grow to MaxGrown Instances
AppendingStageEffects(ctx, heap) ==
    {[append |-> NoAppend, mutate |-> m, error |-> r.error, object |-> r.object] :
        m \in BOOLEAN, r \in Raises(heap) \cup {Returns}}
    \cup {[append |-> a, mutate |-> FALSE, error |-> NoException, object |-> 0] :
            a \in AppendChoices(ctx, MaxGrown) \ {NoAppend}}

\* process() did not return
Raised(effect) == effect.error # NoException

\* the Context after the side effects of plugin.process(), made while the
\* Instance at position idx (0: none) is being iterated
PluginProcess(ctx, idx, effect, newId) ==
    LET mutated == IF effect.mutate /\ idx # 0
                   THEN [ctx EXCEPT ![idx].config = ("note" :> "set") @@ @]
                   ELSE ctx
    IN IF effect.append # NoAppend
       THEN Append(mutated, Instance(newId, effect.append))
       ELSE mutated

\* ------------------------------------------------------- runner fragments
\* variant: a failed host resolution is taken as "no plugin matches"
host_check_swallow(PluginClass) ==
    IF current_host.raises THEN "continue"
    ELSE IF ~(current_host.value \in PluginClass.hosts) THEN "continue"
    ELSE "pass"

\* variant: the hosts of the plugin are not looked at
host_check_off(PluginClass) ==
    IF current_host.raises THEN "raise" ELSE "pass"

\* `if not current_host() in plugin.hosts: continue`
host_check(PluginClass) ==
    IF current_host.raises THEN "raise"
    ELSE IF ~(current_host.value \in PluginClass.hosts) THEN "continue"
    ELSE "pass"

\* variant: the families of the plugin are not looked at
family_check_off(fam, PluginClass) == "pass"

\* `if not family in plugin.families: continue`
family_check(fam, PluginClass) ==
    IF ~(fam \in PluginClass.families) THEN "continue" ELSE "pass"

\* variant: select() empties the Context it is given
select_context_cleared(arg) ==
    [id |-> IF arg # 0 THEN arg ELSE nextCtx, items |-> <<>>]

\* variant: select() always starts from a new Context
select_context_fresh(arg) == [id |-> nextCtx, items |-> <<>>]

\* `context = context if not context is None else Context()`
select_context(arg) ==
    IF arg # 0 THEN [id |-> arg, items |-> context]
    ELSE [id |-> nextCtx, items |-> <<>>]

\* variant: the clause logs and raises again
select_except_reraise(effect) == effect.error

\* select()'s `except Exception:` clause: what still propagates
select_except(effect) ==
    IF isinstance(effect.error, "Exception") THEN NoException ELSE effect.error

\* variant: the clause logs and raises again
process_except_reraise(effect) == effect.error

\* process()'s `except Exception as exc:` clause: what still propagates
process_except(effect) ==
    IF isinstance(effect.error, "Exception") THEN NoException ELSE effect.error

\* the attributes process() sets on exc: exc.parent, and exc.traceback, which
\* tells the plugin that raised
Error(instance, plugin) == [parent |-> instance.id, traceback |-> plugin]

\* `exc.parent = instance`, `exc.traceback = ...` on the object raised: a new
\* object joins the recorded ones, a kept one has its attributes overwritten
tag_error(heap, object, instance, plugin) ==
    IF object = Len(heap) + 1 THEN Append(heap, Error(instance, plugin))
    ELSE [heap EXCEPT ![object] = Error(instance, plugin)]

\* variant: the error replaces the errors the Instance had
record_error_replace(ctx, idx, object) ==
    [ctx EXCEPT ![idx].errors = <<object>>]

\* variant: the error is appended to every Instance of the Context
record_error_all(ctx, idx, object) ==
    [n \in 1..Len(ctx) |-> [ctx[n] EXCEPT !.errors = Append(@, object)]]

\* `instance.errors.append(exc)` for the Instance at position idx: the list
\* holds the object itself
record_error(ctx, idx, object) ==
    [ctx EXCEPT ![idx].errors = Append(@, object)]

\* variant: a failure ends the plugin loop of the Instance
next_plugin_break(kk, raised) == IF raised THEN Len(plugins) + 1 ELSE kk + 1

\* the plugin loop goes on with the next discovered class
next_plugin(kk, raised) == kk + 1

\* variant: the argument is not checked
assert_isinstance_off(valid) == "pass"

\* `assert isinstance(context, Context)`; valid: the argument is a Context
assert_isinstance(valid) == IF valid THEN "pass" ELSE "raise"

\* variant: the discovered classes are gone through in reversed order
plugin_index_reversed(kk) == Len(plugins) + 1 - kk

\* `for PluginClass in plugins:` the class the kk-th iteration takes, as its
\* position in the discovered list
plugin_index(kk) == kk

\* variant: the class is constructed once the checks have let it pass
construct_checked(log, id, kk, verdict) ==
    IF verdict = "pass" THEN Append(log, [inst |-> id, plugin |-> kk]) ELSE log

\* `plugin = PluginClass(context)`, made for Instance id (0: select) before the
\* checks, whose outcome is verdict, are made
construct(log, id, kk, verdict) == Append(log, [inst |-> id, plugin |-> kk])

\* `plugin = PluginClass(context)` ... `plugin.process()`: the object the
\* behaviour invoked while Instance id is iterated is bound to, and the
\* arguments it is passed
plugin_process(ctxid, id) == [bound |-> <<"Context", ctxid>>, passed |-> <<>>]

\* variant: the iterator goes over the Instances the container held when
\* the call was made
container_len_frozen(self) == Len(ctx0)

\* publish.abstract.Context, an insertion-ordered sequence container: the
\* length its iterator compares its position with before every step
container_len(self) == Len(self)

\* `for instance in context:` iterates the Context object itself, as it is now
iter_len == container_len(context)

\* variant: a Context other than the one worked on is returned
return_new == nextCtx

\* `return context`
return_context == ctxId

\* ------------------------------------------------------------------ Init
\* the Contexts a caller may hold before the first call: Instances 1..m
InitialContexts ==
    UNION {{[n \in 1..m |-> Instance(n, fams[n])] :
                fams \in [1..m -> Families \cup {None}]} : m \in 0..MaxInitial}

Init ==
    /\ executable \in Executables
    /\ ctxId \in {0, 1}
    /\ context \in InitialContexts
    /\ ctxId = 0 => context = <<>>
    /\ nextCtx = ctxId + 1
    /\ nextInst = Len(context) + 1
    /\ ncalls = 0
    /\ pc = "idle"
    /\ op = "none"
    /\ plugins = <<>>
    /\ i = 0
    /\ k = 0
    /\ family = None
    /\ argId = 0
    /\ ret = 0
    /\ exc = NoException
    /\ excs = <<>>
    /\ ctx0 = <<>>
    /\ constructed = <<>>
    /\ invoked = <<>>

Ready == pc \in {"idle", "returned", "raised"}

\* ---------------------------------------------------------------- select
\* the caller calls select(context) (given) or select() (not given)
CallSelect(given) ==
    /\ Ready
    /\ ncalls < MaxCalls
    /\ IF given THEN ctxId # 0 ELSE ctxId = 0
    /\ \E found \in discover("selectors") : plugins' = found
    /\ LET arg == IF given THEN ctxId ELSE 0
           c == select_context(arg)
       IN /\ argId' = arg
          /\ ctxId' = c.id
          /\ context' = c.items
          /\ ctx0' = IF given THEN context ELSE <<>>
          /\ nextCtx' = IF c.id = nextCtx THEN nextCtx + 1 ELSE nextCtx
    /\ ncalls' = ncalls + 1
    /\ pc' = "select"
    /\ op' = "select"
    /\ k' = 1
    /\ i' = 0
    /\ family' = None
    /\ ret' = 0
    /\ exc' = NoException
    /\ constructed' = <<>>
    /\ invoked' = <<>>
    /\ UNCHANGED <<executable, excs, nextInst>>

\* current_host() raises while plugin k is checked: select() is left
SelectHostFail ==
    /\ pc = "select"
    /\ k <= Len(plugins)
    /\ host_check(plugins[plugin_index(k)]) = "raise"
    /\ constructed' = construct(constructed, 0, plugin_index(k), "raise")
    /\ pc' = "raised"
    /\ exc' = current_host.value
    /\ ctxId' = argId
    /\ context' = IF argId = 0 THEN <<>> ELSE context
    /\ UNCHANGED <<executable, excs, nextCtx, nextInst, ncalls, op, plugins, i, k,
                   family, argId, ret, ctx0, invoked>>

\* plugin k does not list the current host: continue
SelectSkipHost ==
    /\ pc = "select"
    /\ k <= Len(plugins)
    /\ host_check(plugins[plugin_index(k)]) = "continue"
    /\ constructed' = construct(constructed, 0, plugin_index(k), "continue")
    /\ k' = k + 1
    /\ UNCHANGED <<executable, excs, ctxId, context, nextCtx, nextInst, ncalls, pc, op,
                   plugins, i, family, argId, ret, exc, ctx0, invoked>>

\* plugin k is invoked; an Exception it raises is logged and swallowed, any
\* other exception leaves select(), and a Context made by this call is lost
SelectInvoke ==
    /\ pc = "select"
    /\ k <= Len(plugins)
    /\ host_check(plugins[plugin_index(k)]) = "pass"
    /\ \E effect \in SelectorEffects(context) :
         LET after == PluginProcess(context, 0, effect, nextInst)
             out == IF Raised(effect) THEN select_except(effect) ELSE NoException
         IN /\ context' = IF out # NoException /\ argId = 0 THEN <<>> ELSE after
            /\ ctxId' = IF out # NoException THEN argId ELSE ctxId
            /\ nextInst' = IF Len(after) > Len(context) THEN nextInst + 1 ELSE nextInst
            /\ invoked' = Append(invoked,
                            [inst |-> 0, plugin |-> plugin_index(k),
                             given |-> plugin_process(ctxId, 0),
                             raised |-> Raised(effect),
                             error |-> effect.error,
                             object |-> 0,
                             appended |-> IF Len(after) > Len(context)
                                          THEN nextInst ELSE 0])
            /\ exc' = out
            /\ pc' = IF out = NoException THEN "select" ELSE "raised"
            /\ k' = next_plugin(k, Raised(effect))
    /\ constructed' = construct(constructed, 0, plugin_index(k), "pass")
    /\ UNCHANGED <<executable, excs, nextCtx, ncalls, op, plugins, i,
                   family, argId, ret, ctx0>>

\* the plugin loop is over: `return context`
SelectReturn ==
    /\ pc = "select"
    /\ k > Len(plugins)
    /\ pc' = "returned"
    /\ ret' = return_context
    /\ UNCHANGED <<executable, excs, ctxId, context, nextCtx, nextInst, ncalls, op,
                   plugins, i, k, family, argId, exc, ctx0, constructed, invoked>>

\* --------------------------------------------------------------- process
\* the caller calls process(stage, context): with its Context (valid), or
\* with something that is no Context, None or a plain list of its Instances
CallProcess(stage, valid) ==
    /\ Ready
    /\ ncalls < MaxCalls
    /\ valid => ctxId # 0
    /\ IF assert_isinstance(valid) = "raise"
       THEN /\ pc' = "raised"
            /\ exc' = AssertionError
            /\ plugins' = <<>>
            /\ i' = 0
       ELSE /\ pc' = "process_instance"
            /\ exc' = NoException
            /\ \E found \in discover(stage) : plugins' = found
            /\ i' = 1
    /\ argId' = IF valid THEN ctxId ELSE 0
    /\ ctx0' = context
    /\ ncalls' = ncalls + 1
    /\ op' = "process"
    /\ k' = 0
    /\ family' = None
    /\ ret' = 0
    /\ constructed' = <<>>
    /\ invoked' = <<>>
    /\ UNCHANGED <<executable, excs, ctxId, context, nextCtx, nextInst>>

\* `for instance in context:` yields the Instance at position i
ProcessInstance ==
    /\ pc = "process_instance"
    /\ i <= iter_len
    /\ family' = Get(context[i].config, "family")
    /\ k' = 1
    /\ pc' = "process_plugin"
    /\ UNCHANGED <<executable, excs, ctxId, context, nextCtx, nextInst, ncalls, op,
                   plugins, i, argId, ret, exc, ctx0, constructed, invoked>>

\* the Instance loop is over: `return context`
ProcessReturn ==
    /\ pc = "process_instance"
    /\ i > iter_len
    /\ pc' = "returned"
    /\ ret' = return_context
    /\ UNCHANGED <<executable, excs, ctxId, context, nextCtx, nextInst, ncalls, op,
                   plugins, i, k, family, argId, exc, ctx0, constructed, invoked>>

\* the plugin loop of Instance i is over: on to the next Instance
ProcessNextInstance ==
    /\ pc = "process_plugin"
    /\ k > Len(plugins)
    /\ i' = i + 1
    /\ pc' = "process_instance"
    /\ UNCHANGED <<executable, excs, ctxId, context, nextCtx, nextInst, ncalls, op,
                   plugins, k, family, argId, ret, exc, ctx0, constructed, invoked>>

\* current_host() raises while plugin k is checked: process() is left
ProcessHostFail ==
    /\ pc = "process_plugin"
    /\ k <= Len(plugins)
    /\ host_check(plugins[plugin_index(k)]) = "raise"
    /\ constructed' = construct(constructed, context[i].id, plugin_index(k), "raise")
    /\ pc' = "raised"
    /\ exc' = current_host.value
    /\ UNCHANGED <<executable, excs, ctxId, context, nextCtx, nextInst, ncalls, op,
                   plugins, i, k, family, argId, ret, ctx0, invoked>>

\* plugin k does not list the current host: continue
ProcessSkipHost ==
    /\ pc = "process_plugin"
    /\ k <= Len(plugins)
    /\ host_check(plugins[plugin_index(k)]) = "continue"
    /\ constructed' = construct(constructed, context[i].id, plugin_index(k), "continue")
    /\ k' = k + 1
    /\ UNCHANGED <<executable, excs, ctxId, context, nextCtx, nextInst, ncalls, pc, op,
                   plugins, i, family, argId, ret, exc, ctx0, invoked>>

\* plugin k does not list the Instance's family: continue
ProcessSkipFamily ==
    /\ pc = "process_plugin"
    /\ k <= Len(plugins)
    /\ host_check(plugins[plugin_index(k)]) = "pass"
    /\ family_check(family, plugins[plugin_index(k)]) = "continue"
    /\ constructed' = construct(constructed, context[i].id, plugin_index(k), "continue")
    /\ k' = k + 1
    /\ UNCHANGED <<executable, excs, ctxId, context, nextCtx, nextInst, ncalls, pc, op,
                   plugins, i, family, argId, ret, exc, ctx0, invoked>>

\* plugin k is invoked for Instance i; an Exception it raises is logged,
\* tagged with the Instance and appended to the Instance's errors, any other
\* exception leaves process()
InvokeWith(effects) ==
    /\ pc = "process_plugin"
    /\ k <= Len(plugins)
    /\ host_check(plugins[plugin_index(k)]) = "pass"
    /\ family_check(family, plugins[plugin_index(k)]) = "pass"
    /\ \E effect \in effects :
         LET after == PluginProcess(context, i, effect, nextInst)
             out == IF Raised(effect) THEN process_except(effect) ELSE NoException
             caught == Raised(effect) /\ out = NoException
         IN /\ context' = IF caught
                          THEN record_error(after, i, effect.object) ELSE after
            /\ excs' = IF caught
                       THEN tag_error(excs, effect.object, context[i], plugin_index(k))
                       ELSE excs
            /\ nextInst' = IF Len(after) > Len(context) THEN nextInst + 1 ELSE nextInst
            /\ invoked' = Append(invoked,
                            [inst |-> context[i].id, plugin |-> plugin_index(k),
                             given |-> plugin_process(ctxId, context[i].id),
                             raised |-> Raised(effect),
                             error |-> effect.error,
                             object |-> effect.object,
                             appended |-> IF Len(after) > Len(context)
                                          THEN nextInst ELSE 0])
            /\ exc' = out
            /\ pc' = IF out = NoException THEN "process_plugin" ELSE "raised"
            /\ k' = next_plugin(k, Raised(effect))
    /\ constructed' = construct(constructed, context[i].id, plugin_index(k), "pass")
    /\ UNCHANGED <<executable, ctxId, nextCtx, ncalls, op, plugins, i,
                   family, argId, ret, ctx0>>

ProcessInvoke == InvokeWith(StageEffects(context, excs))

\* ------------------------------------------------------------------ Next
Next ==
    \/ \E given \in BOOLEAN : CallSelect(given)
    \/ SelectHostFail
    \/ SelectSkipHost
    \/ SelectInvoke
    \/ SelectReturn
    \/ \E stage \in Stages, valid \in BOOLEAN : CallProcess(stage, valid)
    \/ ProcessInstance
    \/ ProcessReturn
    \/ ProcessNextInstance
    \/ ProcessHostFail
    \/ ProcessSkipHost
    \/ ProcessSkipFamily
    \/ ProcessInvoke

Spec == Init /\ [][Next]_vars

\* ------------------------------------------------- one call, unbounded
\* A single process() call in which plugins append without limit.  Only a
\* window of the Context is kept: once the window holds MaxInst Instances, an
\* append drops the first Instance of the window, which the loop has passed
\* and never reads again, and the new Instance takes over its identity.  An
\* exception object is made for every raise, and takes the place of one that
\* no Instance of the window holds any more.  The histories of constructions
\* and invocations are not kept.

\* what one invocation of a stage plugin's process() does when the Instance
\* at window position idx is iterated
LiveStageEffects(ctx, idx, heap) ==
    LET held == UNION {{ctx[n].errors[e] : e \in 1..Len(ctx[n].errors)} :
                          n \in 1..Len(ctx)}
        free == {id \in 1..(Len(heap) + 1) : id \notin held}
        new == CHOOSE id \in free : \A other \in free : id <= other
        raises == [error : {PluginError}, object : {new}]
                  \cup [error : Raisable \ {PluginError}, object : {0}]
    IN {[append |-> NoAppend, mutate |-> m, error |-> r.error, object |-> r.object] :
           m \in BOOLEAN, r \in raises \cup {Returns}}
       \cup {[append |-> a, mutate |-> FALSE, error |-> NoException, object |-> 0] :
               a \in IF Len(ctx) < MaxInst \/ idx > 1
                     THEN Families \cup {None} ELSE {}}

\* the first call of the caller: process(stage, context) with its Context
LiveCallProcess(stage) ==
    /\ ncalls = 0
    /\ CallProcess(stage, TRUE)

\* current_host() raises while plugin k is checked: process() is left
LiveHostFail ==
    /\ pc = "process_plugin"
    /\ k <= Len(plugins)
    /\ host_check(plugins[plugin_index(k)]) = "raise"
    /\ pc' = "raised"
    /\ exc' = current_host.value
    /\ UNCHANGED <<executable, excs, ctxId, context, nextCtx, nextInst, ncalls, op,
                   plugins, i, k, family, argId, ret, ctx0, constructed, invoked>>

\* plugin k does not list the current host: continue
LiveSkipHost ==
    /\ pc = "process_plugin"
    /\ k <= Len(plugins)
    /\ host_check(plugins[plugin_index(k)]) = "continue"
    /\ k' = k + 1
    /\ UNCHANGED <<executable, excs, ctxId, context, nextCtx, nextInst, ncalls, pc, op,
                   plugins, i, family, argId, ret, exc, ctx0, constructed,
                   invoked>>

\* plugin k does not list the Instance's family: continue
LiveSkipFamily ==
    /\ pc = "process_plugin"
    /\ k <= Len(plugins)
    /\ host_check(plugins[plugin_index(k)]) = "pass"
    /\ family_check(family, plugins[plugin_index(k)]) = "continue"
    /\ k' = k + 1
    /\ UNCHANGED <<executable, excs, ctxId, context, nextCtx, nextInst, ncalls, pc, op,
                   plugins, i, family, argId, ret, exc, ctx0, constructed,
                   invoked>>

\* plugin k is invoked for Instance i; an Exception it raises is recorded
LiveInvoke ==
    /\ pc = "process_plugin"
    /\ k <= Len(plugins)
    /\ host_check(plugins[plugin_index(k)]) = "pass"
    /\ family_check(family, plugins[plugin_index(k)]) = "pass"
    /\ \E effect \in LiveStageEffects(context, i, excs) :
         LET appends == effect.append # NoAppend
             slides == appends /\ Len(context) = MaxInst
             newId == IF slides THEN context[1].id ELSE nextInst
             after == PluginProcess(context, i, effect, newId)
             out == IF Raised(effect) THEN process_except(effect) ELSE NoException
             caught == Raised(effect) /\ out = NoException
             result == IF caught
                       THEN record_error(after, i, effect.object) ELSE after
         IN /\ context' = IF slides THEN Tail(result) ELSE result
            /\ excs' = IF caught
                       THEN tag_error(excs, effect.object, context[i], plugin_index(k))
                       ELSE excs
            /\ i' = IF slides THEN i - 1 ELSE i
            /\ nextInst' = IF appends /\ ~slides THEN nextInst + 1 ELSE nextInst
            /\ exc' = out
            /\ pc' = IF out = NoException THEN "process_plugin" ELSE "raised"
            /\ k' = next_plugin(k, Raised(effect))
    /\ UNCHANGED <<executable, ctxId, nextCtx, ncalls, op, plugins,
                   family, argId, ret, ctx0, constructed, invoked>>

\* the steps of the running call
LiveRun ==
    \/ ProcessInstance
    \/ ProcessReturn
    \/ ProcessNextInstance
    \/ LiveHostFail
    \/ LiveSkipHost
    \/ LiveSkipFamily
    \/ LiveInvoke

NextLive ==
    \/ \E stage \in Stages : LiveCallProcess(stage)
    \/ LiveRun

\* the call is synchronous: once made, it keeps taking its steps
LiveSpec == Init /\ [][NextLive]_vars /\ WF_vars(LiveRun)

\* ------------------------------------------- one call, a growing Context
\* A single process() call, the caller's first, on a Context of up to MaxInst
\* Instances that the stage plugins may append to until it holds MaxGrown.

\* plugin k is invoked for Instance i
AppendingInvoke == InvokeWith(AppendingStageEffects(context, excs))

NextAppending ==
    \/ \E stage \in Stages : LiveCallProcess(stage)
    \/ ProcessInstance
    \/ ProcessReturn
    \/ ProcessNextInstance
    \/ ProcessHostFail
    \/ ProcessSkipHost
    \/ ProcessSkipFamily
    \/ AppendingInvoke

AppendingSpec == Init /\ [][NextAppending]_vars

\* ============================================================== properties
\* helpers of the properties
HostIs(PluginClass) ==
    ~current_host.raises /\ current_host.value \in PluginClass.hosts

Matches(instance, PluginClass) ==
    HostIs(PluginClass) /\ Get(instance.config, "family") \in PluginClass.families

\* the invocations of this call made for Instance id with plugin kk
Invocations(id, kk) ==
    {n \in 1..Len(invoked) : invoked[n].inst = id /\ invoked[n].plugin = kk}

\* the failed invocations of this call made for Instance id
Failures(id) ==
    {n \in 1..Len(invoked) : invoked[n].inst = id /\ invoked[n].raised}

\* the invocations of this call that raised an Exception, made for Instance id
Recorded(id) ==
    {n \in Failures(id) : isinstance(invoked[n].error, "Exception")}

\* the exception objects of the Exceptions that the first n invocations raised
\* for Instance id, in invocation order
RECURSIVE RecordedUpTo(_, _)
RecordedUpTo(id, n) ==
    IF n = 0 THEN <<>>
    ELSE IF n \in Recorded(id)
         THEN Append(RecordedUpTo(id, n - 1), invoked[n].object)
         ELSE RecordedUpTo(id, n - 1)

\* the call was left by what the last plugin invoked raised, which is none of
\* the exceptions an `except Exception` clause catches
LeftByNonException ==
    /\ pc = "raised"
    /\ invoked # <<>>
    /\ invoked[Len(invoked)].error = exc
    /\ exc \in Raisable
    /\ ~isinstance(exc, "Exception")

\* the call was left by the failed host resolution
LeftByHostError == pc = "raised" /\ exc = ValueError /\ current_host.raises

\* errors the Instance at position idx had when the call started
Errors0(idx) == IF idx <= Len(ctx0) THEN ctx0[idx].errors ELSE <<>>

RECURSIVE ErrorCount(_, _)
ErrorCount(ctx, n) ==
    IF n = 0 THEN 0 ELSE ErrorCount(ctx, n - 1) + Len(ctx[n].errors)

\* C1: in every reachable state the Context's errors hold, for every Instance
\* in Context order, that Instance's errors in their own order and nothing
\* else, and has_errors is true exactly when some Instance has an error.
C1_ContextErrors ==
    /\ Len(errors(context)) = ErrorCount(context, Len(context))
    /\ \A n \in 1..Len(context) : \A e \in 1..Len(context[n].errors) :
          errors(context)[ErrorCount(context, n - 1) + e] = context[n].errors[e]
    /\ has_errors(context) <=> (\E n \in 1..Len(context) : context[n].errors # <<>>)

\* two Instances carry errors after a call
C1_Witness ==
    /\ pc = "returned"
    /\ Len(context) = 2
    /\ context[1].errors # <<>>
    /\ context[2].errors # <<>>

\* C2 as stated: a step of process() that invokes a plugin which raises
\* appends exactly one error to the Instance being iterated, with parent equal
\* to that Instance, and to no other Instance's errors; an invocation that
\* succeeds appends nothing.
C2_OneErrorPerRaise ==
    [][(op = "process" /\ Len(invoked') = Len(invoked) + 1) =>
         LET call == invoked'[Len(invoked')]
         IN \A n \in 1..Len(context') :
               LET before == IF n <= Len(context) THEN context[n].errors ELSE <<>>
                   after == context'[n].errors
               IN IF call.raised /\ n = i
                  THEN /\ Len(after) = Len(before) + 1
                       /\ SubSeq(after, 1, Len(before)) = before
                       /\ excs'[after[Len(after)]].parent = call.inst
                  ELSE after = before
      ]_vars

\* C2 amended: a step of process() that invokes a plugin which raises an
\* Exception appends exactly one error, the object raised, to the Instance
\* being iterated, with parent equal to that Instance, and to no other
\* Instance's errors; an invocation that returns, or that raises what is no
\* Exception, appends nothing, and the latter leaves process().
C2_OneErrorOnIteratedInstance ==
    [][(op = "process" /\ Len(invoked') = Len(invoked) + 1) =>
         LET call == invoked'[Len(invoked')]
             recorded == call.raised /\ isinstance(call.error, "Exception")
         IN /\ \A n \in 1..Len(context') :
                 LET before == IF n <= Len(context) THEN context[n].errors ELSE <<>>
                     after == context'[n].errors
                 IN IF recorded /\ n = i
                    THEN /\ Len(after) = Len(before) + 1
                         /\ SubSeq(after, 1, Len(before)) = before
                         /\ after[Len(after)] = call.object
                         /\ excs'[call.object].parent = context[i].id
                         /\ excs'[call.object].parent = call.inst
                    ELSE after = before
            /\ \A n \in 1..Len(context) : context'[n].id = context[n].id
            /\ (call.raised /\ ~recorded) => (pc' = "raised" /\ exc' = call.error)
            /\ ~recorded => excs' = excs
      ]_vars

\* the plugin has just raised, for the second Instance, the exception object
\* it raised for the first one: both Instances hold it, its parent is the second
C2_Witness ==
    /\ op = "process"
    /\ pc = "process_plugin"
    /\ i = 2
    /\ invoked # <<>>
    /\ invoked[Len(invoked)].raised
    /\ invoked[Len(invoked)].inst = context[2].id
    /\ Len(context[2].errors) = 1
    /\ context[1].errors = context[2].errors
    /\ excs[context[2].errors[1]].parent = context[2].id

\* every pair of an Instance of the Context and a discovered plugin that
\* matches the host and the Instance's family has been invoked exactly once,
\* and every Instance has gained exactly one error per failed invocation
EveryMatchingPairOnce ==
    \A n \in 1..Len(context) :
        /\ \A kk \in 1..Len(plugins) :
             Matches(context[n], plugins[kk]) =>
                 Cardinality(Invocations(context[n].id, kk)) = 1
        /\ Len(context[n].errors) =
             Len(Errors0(n)) + Cardinality(Failures(context[n].id))

\* C3 as stated: whatever a plugin raised, once the process() call is over,
\* by its return or by what a plugin raised, every matching pair has been
\* invoked exactly once and there is one error per failed invocation.
C3_EveryMatchingPairWhateverRaised ==
    (op = "process" /\ (pc = "returned" \/ (pc = "raised" /\ exc \in Raisable))) =>
        EveryMatchingPairOnce

\* C3 amended: whatever Exceptions plugins raised, when process() returns
\* every matching pair has been invoked exactly once and every Instance has
\* gained exactly one error per failed invocation made for it; a plugin that
\* raises what is no Exception ends the call at that invocation, which is the
\* last one made.
C3_EveryMatchingPairOnce ==
    op = "process" =>
        /\ pc = "returned" => EveryMatchingPairOnce
        /\ \A n \in 1..Len(invoked) :
              (invoked[n].raised /\ ~isinstance(invoked[n].error, "Exception")) =>
                  (n = Len(invoked) /\ LeftByNonException)

\* [P1, P2] both match the Instance, P1 raised, P2 succeeded, one error
C3_Witness ==
    /\ op = "process"
    /\ pc = "returned"
    /\ Len(plugins) = 2
    /\ Len(context) >= 1
    /\ Matches(context[1], plugins[1])
    /\ Matches(context[1], plugins[2])
    /\ Len(invoked) >= 2
    /\ invoked[1].inst = context[1].id
    /\ invoked[1].plugin = 1
    /\ invoked[1].raised
    /\ invoked[1].appended = 0
    /\ invoked[2].inst = context[1].id
    /\ invoked[2].plugin = 2
    /\ ~invoked[2].raised
    /\ Len(context[1].errors) = Len(Errors0(1)) + 1

\* C4: every invocation process() makes is for a plugin whose hosts contain
\* the current host and whose families contain the family of the Instance it
\* is made for; every error of this call sits on such a pair.
C4_OnlyMatchingInvoked ==
    op = "process" =>
        /\ \A n \in 1..Len(invoked) :
             \E idx \in 1..Len(context) :
                /\ context[idx].id = invoked[n].inst
                /\ Matches(context[idx], plugins[invoked[n].plugin])
        /\ \A idx \in 1..Len(context) :
             \A e \in (Len(Errors0(idx)) + 1)..Len(context[idx].errors) :
                \E n \in Failures(context[idx].id) :
                   /\ invoked[n].object = context[idx].errors[e]
                   /\ Matches(context[idx], plugins[invoked[n].plugin])

\* a call with a plugin of another host and a plugin of another family than
\* an Instance has, where a third pair was invoked and failed
C4_Witness ==
    /\ op = "process"
    /\ pc = "returned"
    /\ Len(plugins) = 2
    /\ Len(context) = 2
    /\ ~HostIs(plugins[1])
    /\ Get(context[1].config, "family") \in plugins[1].families
    /\ HostIs(plugins[2])
    /\ ~Matches(context[1], plugins[2])
    /\ Matches(context[2], plugins[2])
    /\ Len(invoked) = 1
    /\ invoked[1].raised
    /\ context[1].errors = <<>>

\* C5 as stated: select() is never left by what a plugin raised, and when a
\* plugin has raised, select() returns in the end with every later selector
\* of the current host invoked.
C5_SelectorFailureNeverRaised ==
    op = "select" =>
        /\ pc = "raised" => LeftByHostError
        /\ pc = "returned" =>
             \A kk \in 1..Len(plugins) :
                HostIs(plugins[kk]) => Cardinality(Invocations(0, kk)) = 1

\* C5 amended: select() is never left by an Exception a plugin raised (only
\* by a failed host resolution or by a plugin raising what is no Exception),
\* and when it returns every discovered selector plugin whose hosts contain
\* the current host has been invoked exactly once, whatever failed before it,
\* and the Instances these invocations appended are in the Context returned.
C5_SelectorFailureIsolated ==
    op = "select" =>
        /\ pc = "raised" => (LeftByHostError \/ LeftByNonException)
        /\ pc = "returned" =>
             /\ ret = ctxId
             /\ \A kk \in 1..Len(plugins) :
                  HostIs(plugins[kk]) => Cardinality(Invocations(0, kk)) = 1
             /\ \A n \in 1..Len(invoked) :
                  invoked[n].appended # 0 =>
                     \E idx \in 1..Len(context) : context[idx].id = invoked[n].appended

\* the first selector raised, the second one appended an Instance
C5_Witness ==
    /\ op = "select"
    /\ pc = "returned"
    /\ Len(invoked) = 2
    /\ invoked[1].raised
    /\ ~invoked[2].raised
    /\ invoked[2].appended # 0
    /\ \E idx \in 1..Len(context) : context[idx].id = invoked[2].appended

\* C6 as stated: process() called with a Context is never left by what a
\* plugin raised, whatever that is, and what it returns is the Context it was
\* given.
C6_ProcessNeverAbortsWhateverRaised ==
    (op = "process" /\ argId # 0) =>
        /\ pc = "raised" => LeftByHostError
        /\ pc = "returned" => (exc = NoException /\ ret = argId /\ ret # 0)
        /\ (\E n \in 1..Len(invoked) : invoked[n].raised) => pc # "raised"

\* C6 amended: process() called with a Context is never left by an Exception
\* a plugin raised (only by a failed host resolution or by a plugin raising
\* what is no Exception), and what it returns is the Context it was given.
C6_ProcessNeverAbortsOnPluginError ==
    (op = "process" /\ argId # 0) =>
        /\ pc = "raised" => (LeftByHostError \/ LeftByNonException)
        /\ pc = "returned" => (exc = NoException /\ ret = argId /\ ret # 0)
        /\ \A n \in 1..Len(invoked) :
              (pc = "raised" /\ isinstance(invoked[n].error, "Exception")) =>
                  n < Len(invoked)

\* process() returned its Context after two plugin failures
C6_Witness ==
    /\ op = "process"
    /\ pc = "returned"
    /\ ret = argId
    /\ Cardinality({n \in 1..Len(invoked) : invoked[n].raised}) >= 2

\* identities of the Instances the call has added to the Context, in order
Added == [n \in 1..(Len(context) - Len(ctx0)) |-> context[Len(ctx0) + n].id]

\* what the first n invocations appended, in invocation order; those of
\* invocations that raised are counted only with keepRaised
RECURSIVE AppendedUpTo(_, _)
AppendedUpTo(n, keepRaised) ==
    IF n = 0 THEN <<>>
    ELSE IF invoked[n].appended # 0 /\ (keepRaised \/ ~invoked[n].raised)
         THEN Append(AppendedUpTo(n - 1, keepRaised), invoked[n].appended)
         ELSE AppendedUpTo(n - 1, keepRaised)

\* the Context select() returns: the argument, or a new one when there is none
ReturnsArgumentOrNew ==
    /\ ret = ctxId
    /\ ret # 0
    /\ argId # 0 => ret = argId
    /\ argId = 0 => (ret = nextCtx - 1 /\ ctx0 = <<>>)

\* C7 as stated: when select() returns, the Instances added during the call
\* are exactly those appended by the selector plugins whose process() returned
\* without raising, and the Context returned is the argument or a new one.
C7_AddedBySuccessfulOnly ==
    (op = "select" /\ pc = "returned") =>
        /\ SubSeq(context, 1, Len(ctx0)) = ctx0
        /\ Added = AppendedUpTo(Len(invoked), FALSE)
        /\ ReturnsArgumentOrNew

\* C7 amended: when select() returns, the Instances added during the call are
\* exactly those appended by the invoked selector plugins, in invocation
\* order, including what a process() appended before it raised; the Context
\* returned is the argument, or a new one when no argument was passed.
C7_AddedByInvoked ==
    (op = "select" /\ pc = "returned") =>
        /\ SubSeq(context, 1, Len(ctx0)) = ctx0
        /\ Added = AppendedUpTo(Len(invoked), TRUE)
        /\ ReturnsArgumentOrNew

\* select() returned the Context it was given, which held one Instance, after
\* a selector appended an Instance and then raised
C7_Witness ==
    /\ op = "select"
    /\ pc = "returned"
    /\ argId # 0
    /\ ret = argId
    /\ Len(ctx0) = 1
    /\ Len(invoked) = 1
    /\ invoked[1].raised
    /\ invoked[1].appended # 0
    /\ Len(context) = 2
    /\ context[2].id = invoked[1].appended

\* C8: while the host cannot be determined, a step that checks a plugin
\* against the host leaves the call with the resolution's error, invokes no
\* process() and changes no Instance's errors; no invocation is ever made and
\* a call is left only by that error.
C8_HostFailurePropagates ==
    [][(current_host.raises /\ pc \in {"select", "process_plugin"}
            /\ k <= Len(plugins)) =>
         /\ pc' = "raised"
         /\ exc' = ValueError
         /\ ret' = 0
         /\ invoked' = <<>>
         /\ errors(context') = errors(context)
         /\ \A n \in 1..Len(context') : context'[n].errors = context[n].errors
      ]_vars

\* process() was left by the host error at the first plugin checked for the
\* first Instance, before any invocation
C8_Witness ==
    /\ op = "process"
    /\ pc = "raised"
    /\ exc = ValueError
    /\ Len(plugins) >= 1
    /\ Len(constructed) = 1
    /\ invoked = <<>>

\* C9: a select() call for which discovery returned no plugin never raises and
\* keeps the Context's Instances as they were when it was called (none for an
\* absent argument), in the same order, also when the host is undetermined.
C9_SelectWithoutPlugins ==
    (op = "select" /\ plugins = <<>>) =>
        /\ pc \in {"select", "returned"}
        /\ exc = NoException
        /\ context = ctx0
        /\ argId = 0 => context = <<>>
        /\ pc = "returned" => (ret = ctxId /\ ret # 0 /\ (argId # 0 => ret = argId))

\* select() without plugins returned a Context that held two Instances
C9_Witness ==
    /\ op = "select"
    /\ plugins = <<>>
    /\ pc = "returned"
    /\ argId # 0
    /\ Len(context) = 2
    /\ context = ctx0

\* C10: during and after a process() call, an Instance that no discovered
\* plugin matches by host and family has the errors and the config it had when
\* the call started.
C10_UnmatchedInstanceUntouched ==
    op = "process" =>
        \A n \in 1..Len(ctx0) :
            (\A kk \in 1..Len(plugins) : ~Matches(ctx0[n], plugins[kk])) =>
                /\ context[n].errors = ctx0[n].errors
                /\ context[n].config = ctx0[n].config
                /\ context[n].id = ctx0[n].id

\* process() returned: the first Instance, with an earlier error and a changed
\* config, matched no plugin; the second one matched and got an error
C10_Witness ==
    /\ op = "process"
    /\ pc = "returned"
    /\ Len(ctx0) = 2
    /\ plugins # <<>>
    /\ \A kk \in 1..Len(plugins) : ~Matches(ctx0[1], plugins[kk])
    /\ \E kk \in 1..Len(plugins) : Matches(ctx0[2], plugins[kk])
    /\ ctx0[1].errors # <<>>
    /\ context[1] = ctx0[1]
    /\ Len(context[2].errors) > Len(ctx0[2].errors)

\* C11: a process() call whose argument is no Context is over at once with the
\* assertion's error: nothing was discovered, no plugin was constructed or
\* invoked, nothing is returned and every Instance is as it was.
C11_InvalidContextFailsAtOnce ==
    (op = "process" /\ argId = 0) =>
        /\ pc = "raised"
        /\ exc = AssertionError
        /\ ret = 0
        /\ plugins = <<>>
        /\ constructed = <<>>
        /\ invoked = <<>>
        /\ context = ctx0

\* process() was called with a plain list of two Instances, one with an error
C11_Witness ==
    /\ op = "process"
    /\ argId = 0
    /\ pc = "raised"
    /\ exc = AssertionError
    /\ ~current_host.raises
    /\ Len(context) = 2
    /\ context[1].errors # <<>>

IsPrefix(s, t) == Len(s) <= Len(t) /\ SubSeq(t, 1, Len(s)) = s

\* C12: no step of a select() or process() call on a Context clears, removes
\* or reorders an error: every Instance's errors before the step are a prefix
\* of its errors after it, and has_errors, once true, stays true.
C12_ErrorsAppendOnly ==
    [][ctxId' = ctxId =>
         /\ \A n \in 1..Len(context) :
               /\ n <= Len(context')
               /\ IsPrefix(context[n].errors, context'[n].errors)
         /\ has_errors(context) => has_errors(context')
      ]_vars

\* after a later process() call the first Instance carries the error of an
\* earlier call followed by one of the later call
C12_Witness ==
    /\ op = "process"
    /\ pc = "returned"
    /\ ncalls = 2
    /\ Len(context) >= 1
    /\ Len(context[1].errors) = 2
    /\ Len(ctx0[1].errors) = 1
    /\ context[1].errors[1] = ctx0[1].errors[1]
    /\ context[1].errors[1] # context[1].errors[2]
    /\ has_errors(ctx0)

\* position of the Instance with identity id in the Context
Position(id) == CHOOSE n \in 1..Len(context) : context[n].id = id

\* C13: the invocations of a process() call are made Instance by Instance in
\* Context order and, for one Instance, in discovery order; the errors the
\* call records on one Instance are in the discovery order of the plugins that
\* failed; the invocations of a select() call are in discovery order.
C13_InvocationOrder ==
    /\ op = "process" =>
         /\ \A n, m \in 1..Len(invoked) :
               n < m =>
                  \/ Position(invoked[n].inst) < Position(invoked[m].inst)
                  \/ /\ invoked[n].inst = invoked[m].inst
                     /\ invoked[n].plugin < invoked[m].plugin
         /\ \A idx \in 1..Len(context) :
               context[idx].errors =
                   Errors0(idx) \o RecordedUpTo(context[idx].id, Len(invoked))
    /\ op = "select" =>
         \A n, m \in 1..Len(invoked) :
            n < m => invoked[n].plugin < invoked[m].plugin

\* both plugins were invoked for both Instances and both failed on the first
C13_Witness ==
    /\ op = "process"
    /\ pc = "returned"
    /\ Len(context) = 2
    /\ Len(invoked) = 4
    /\ Len(context[1].errors) = Len(Errors0(1)) + 2
    /\ invoked[2].inst = context[1].id
    /\ invoked[3].inst = context[2].id

\* the checks skip the plugin at discovery position kk for Instance id
\* (0: select, where only the host is checked)
Skipped(id, kk) ==
    /\ ~current_host.raises
    /\ IF id = 0 THEN ~HostIs(plugins[kk])
       ELSE ~Matches(context[Position(id)], plugins[kk])

\* C14 as stated: a plugin behaviour is constructed only for a plugin that the
\* host check and, in process(), the family check have not skipped.
C14_ConstructedOnlyIfNotSkipped ==
    op \in {"select", "process"} =>
        \A n \in 1..Len(constructed) :
            ~Skipped(constructed[n].inst, constructed[n].plugin)

\* C14 amended: a plugin behaviour is constructed for every discovered plugin
\* the loop reaches, skipped or not (in process() once per Instance), before
\* the checks are made; only a plugin that is not skipped is invoked.
C14_ConstructedBeforeChecks ==
    /\ op \in {"select", "process"} =>
         /\ \A n \in 1..Len(invoked) :
               /\ ~Skipped(invoked[n].inst, invoked[n].plugin)
               /\ \E c \in 1..Len(constructed) :
                     /\ constructed[c].inst = invoked[n].inst
                     /\ constructed[c].plugin = invoked[n].plugin
    /\ (op = "select" /\ pc = "returned") =>
         constructed = [kk \in 1..Len(plugins) |-> [inst |-> 0, plugin |-> kk]]
    /\ (op = "process" /\ pc = "returned") =>
         /\ Len(constructed) = Len(context) * Len(plugins)
         /\ \A n \in 1..Len(context) : \A kk \in 1..Len(plugins) :
               constructed[(n - 1) * Len(plugins) + kk] =
                   [inst |-> context[n].id, plugin |-> kk]

\* process() returned: the first plugin was skipped for the first Instance,
\* by host or by family, and yet constructed for it; the second one was invoked
C14_Witness ==
    /\ op = "process"
    /\ pc = "returned"
    /\ Len(plugins) = 2
    /\ Len(context) >= 1
    /\ Skipped(context[1].id, 1)
    /\ constructed[1] = [inst |-> context[1].id, plugin |-> 1]
    /\ Len(invoked) >= 1
    /\ invoked[1].inst = context[1].id
    /\ invoked[1].plugin = 2

\* C15: in a process() call no plugin is invoked for an Instance whose config
\* has no family entry, and the call appends no error to it, whatever families
\* the discovered plugins declare.
C15_NoFamilyMatchesNothing ==
    op = "process" =>
        \A idx \in 1..Len(context) :
            ~("family" \in DOMAIN context[idx].config) =>
                /\ \A n \in 1..Len(invoked) : invoked[n].inst # context[idx].id
                /\ context[idx].errors = Errors0(idx)

\* process() returned: the first Instance has no family entry, the plugins of
\* the current host cover both families, and only the second Instance, which
\* has a family, had a plugin invoked and got an error
C15_Witness ==
    /\ op = "process"
    /\ pc = "returned"
    /\ Len(context) = 2
    /\ ~("family" \in DOMAIN context[1].config)
    /\ "family" \in DOMAIN context[2].config
    /\ Len(plugins) = 2
    /\ HostIs(plugins[1])
    /\ HostIs(plugins[2])
    /\ plugins[1].families \cup plugins[2].families = Families
    /\ Len(constructed) = 4
    /\ Len(invoked) = 1
    /\ invoked[1].inst = context[2].id
    /\ invoked[1].raised
    /\ context[1].errors = <<>>

\* C16 as stated: every invocation process() makes for an Instance hands that
\* Instance to the behaviour invoked: the behaviour is bound to it or is
\* passed it as an argument.
C16_InvokedAgainstInstance ==
    op = "process" =>
        \A n \in 1..Len(invoked) :
            LET given == invoked[n].given
                this == <<"Instance", invoked[n].inst>>
            IN \/ given.bound = this
               \/ \E a \in 1..Len(given.passed) : given.passed[a] = this

\* C17: no step of a select() or process() call removes or reorders the
\* Instances of the Context: the Instances before the step are, one by one and
\* in the same order, the first Instances after it.
C17_InstancesAppendOnly ==
    [][(ctxId # 0 /\ ctxId' = ctxId) =>
         /\ Len(context) <= Len(context')
         /\ \A n \in 1..Len(context) : context'[n].id = context[n].id
      ]_vars

\* a select() call on a Context that held an Instance returned it with that
\* Instance first and a new one after it, in the second call on that Context
C17_Witness ==
    /\ op = "select"
    /\ pc = "returned"
    /\ ncalls = 2
    /\ Len(ctx0) = 1
    /\ Len(context) = 2
    /\ context[1].id = ctx0[1].id
    /\ context[2].id # ctx0[1].id

\* the constructions of this call made for Instance id with plugin kk
Constructions(id, kk) ==
    {n \in 1..Len(constructed) :
        constructed[n].inst = id /\ constructed[n].plugin = kk}

\* the Instance at position pos has gone through the plugin loop: each
\* discovered plugin was constructed and checked for it once, and invoked for
\* it exactly when it matches the host and the Instance's family
Dispatched(pos) ==
    \A kk \in 1..Len(plugins) :
        /\ Cardinality(Constructions(context[pos].id, kk)) = 1
        /\ Cardinality(Invocations(context[pos].id, kk)) =
              IF Matches(context[pos], plugins[kk]) THEN 1 ELSE 0

\* whatever was done for the Instance at position pos was done after the
\* plugin loop of every Instance before it was over
AfterAllBefore(pos) ==
    \A c \in 1..Len(constructed) :
        constructed[c].inst = context[pos].id =>
            \A q \in 1..(pos - 1) : \A kk \in 1..Len(plugins) :
                \E d \in 1..(c - 1) :
                    constructed[d] = [inst |-> context[q].id, plugin |-> kk]

\* C19 as stated: once the process() call is over, by its return or by what a
\* plugin raised, an Instance that a plugin appended during the call has been
\* visited by the call, after the Instances before it, and dispatched against
\* the discovered plugins.
C19_AppendedInstanceAlwaysVisited ==
    (op = "process" /\ pc \in {"returned", "raised"}) =>
        \A n \in 1..Len(invoked) :
            invoked[n].appended # 0 =>
                LET pos == Position(invoked[n].appended)
                IN Dispatched(pos) /\ AfterAllBefore(pos)

\* C19 amended: an Instance that a plugin appended during a process() call
\* stands after the Instance whose plugin appended it; the call visits it
\* only after the plugin loop of every Instance before it is over; when the
\* call returns it has been visited and dispatched against the discovered
\* plugins like any other Instance; and the call ends without having visited
\* it only when a plugin raised what is no Exception.
C19_AppendedInstanceVisited ==
    op = "process" =>
        \A n \in 1..Len(invoked) :
            invoked[n].appended # 0 =>
                LET id == invoked[n].appended
                    pos == Position(id)
                IN /\ \E idx \in 1..Len(context) : context[idx].id = id
                   /\ Position(invoked[n].inst) < pos
                   /\ AfterAllBefore(pos)
                   /\ pc = "returned" => Dispatched(pos)
                   /\ (pc = "raised" /\ ~Dispatched(pos)) => LeftByNonException

\* process() returned: the Context held two Instances, the first invocation,
\* made for the first of them, appended a third one, plugins were then invoked
\* for the second Instance and, after that, for the appended one
C19_Witness ==
    /\ op = "process"
    /\ pc = "returned"
    /\ Len(ctx0) = 2
    /\ Len(context) = 3
    /\ Len(invoked) >= 3
    /\ invoked[1].inst = context[1].id
    /\ invoked[1].appended = context[3].id
    /\ \E n \in 2..Len(invoked) : \E m \in (n + 1)..Len(invoked) :
          /\ invoked[n].inst = context[2].id
          /\ invoked[m].inst = context[3].id

\* C18 as stated: every call that was made returns or raises in the end, also
\* when plugins append Instances to the Context.
C18_EveryCallEnds == [](~Ready => <>Ready)

====
